---- MODULE Spec2Model ----
(***************************************************************************)
(* External pinger (src/external_pinger.py): a Prober that probes a target *)
(* through an ordered endpoint list and keeps statistics, and a Status     *)
(* Server (Flask routes /, /health, /stats) that reads the same record.    *)
(*                                                                         *)
(* The Prober is modelled statement by statement (pc names the line the    *)
(* Prober executes next), because the Status Server thread can run between *)
(* any two of its statements.  Timestamps are readings of a logical clock  *)
(* that advances with every datetime.now() of the Prober.  The float       *)
(* uptime_percentage is modelled as a reduced fraction <<num, den>>;       *)
(* rounding of the binary float is not modelled.  None is <<>> and a       *)
(* timestamp t is <<t>>.                                                   *)
(***************************************************************************)
EXTENDS Integers, Sequences, FiniteSets, TLC

\* ---------------------------------------------------------------- bounds
\* Cycles the Prober may start in one behaviour (total_pings is unbounded
\* in the program).
MaxCycles == 4

\* Cycles started in the behaviours of SpecLive.
MaxCyclesLive == 3

\* Cycles started in the behaviours of SpecFault.
MaxCyclesFault == 1

\* Cycles started in the behaviours of SpecLong.
MaxCyclesLong == 24

\* ------------------------------------------------------ program constants
FailureThreshold == 3
SummaryEvery == 12
Cooldown == 60
DefaultInterval == 300

\* self.endpoints, in priority order
endpoints == <<"/health", "/ping", "/", "/status">>

\* Values of PING_INTERVAL the process is started with: int() accepts any
\* integer literal, so a negative one is a possible configuration.
Intervals == {-3, 1, DefaultInterval}

\* What requests.get can do for one endpoint: a response with status 200, a
\* response with another status, or one of the three exception classes.
Outcomes == {"200", "non200", "Timeout", "ConnectionError", "Exception"}

\* How start_pinging is run: on a daemon thread next to app.run (the
\* __main__ block), or called on the main thread, the only thread CPython
\* raises KeyboardInterrupt in.
RunModes == {"thread", "direct"}

VARIABLES
  runMode,        \* how start_pinging is run
  ping_interval,  \* self.ping_interval
  stats,          \* self.stats (start_time is clock reading 0)
  clock,          \* readings of datetime.now() taken so far
  pc,             \* the Prober's position
  ep,             \* index into endpoints of the for loop, 0 outside it
  attempts,       \* this cycle's requests so far: the path requested, and
                  \* ok = TRUE where the response had status 200
  result,         \* return value of the last finished ping_target
  sleep_time,     \* local sleep_time of start_pinging
  sleepArg,       \* argument of the time.sleep call in progress, 0 when none
  lastLog,        \* the last line the Prober logged
  serverUp,       \* app.run is serving
  resp,           \* the last response of the Status Server
  preCycle,       \* history: stats when the current cycle began
  midStats,       \* history: the last /stats body served while a cycle was in progress
  streak,         \* history: cycles returning False since the last one returning True
  interrupted     \* history: an interrupt was delivered

vars == <<runMode, ping_interval, stats, clock, pc, ep, attempts, result,
          sleep_time, sleepArg, lastLog, serverUp, resp, preCycle, midStats, streak,
          interrupted>>

\* ---------------------------------------------------------------- helpers
RECURSIVE GCD(_, _)
GCD(a, b) == IF b = 0 THEN a ELSE GCD(b, a % b)

\* the number n/d, d > 0, n >= 0, in lowest terms
Frac(n, d) == LET g == GCD(n, d) IN <<n \div g, d \div g>>

\* q * k for a fraction q
FracTimes(q, k) == Frac(q[1] * k, q[2])

\* ExternalPinger.__init__: the statistics record
InitStats ==
  [ start_time           |-> <<0>>,
    total_pings          |-> 0,
    successful_pings     |-> 0,
    failed_pings         |-> 0,
    last_ping            |-> <<>>,
    last_success         |-> <<>>,
    uptime_percentage    |-> <<100, 1>>,
    consecutive_failures |-> 0 ]

\* _update_uptime with the wrong counter in the numerator
_update_uptime_failed(s) ==
  IF s.total_pings > 0
    THEN [s EXCEPT !.uptime_percentage =
            FracTimes(Frac(s.failed_pings, s.total_pings), 100)]
    ELSE s

\* ExternalPinger._update_uptime
_update_uptime(s) ==
  IF s.total_pings > 0
    THEN [s EXCEPT !.uptime_percentage =
            FracTimes(Frac(s.successful_pings, s.total_pings), 100)]
    ELSE s

\* positions inside a call of ping_target
InCycle == {"L51", "L58", "L62", "L63", "L64", "L67", "L81", "L82", "L85"}

\* positions inside the try block of start_pinging's loop
InTry == InCycle \cup {"L100", "L103", "L107", "L113", "sleeping"}

\* positions inside the except Exception handler of the loop
InHandler == {"L119", "cooldown"}

\* positions after the loop
Exited == {"exited", "crashed", "killed"}

Init ==
  /\ runMode \in RunModes
  /\ ping_interval \in Intervals
  /\ stats = InitStats
  /\ clock = 0
  /\ pc = "start"
  /\ ep = 0
  /\ attempts = <<>>
  /\ result = "none"
  /\ sleep_time = 0
  /\ sleepArg = 0
  /\ lastLog = "none"
  /\ serverUp = (runMode = "thread")
  /\ resp = [route |-> "none"]
  /\ preCycle = InitStats
  /\ midStats = <<>>
  /\ streak = 0
  /\ interrupted = FALSE

serverVars == <<runMode, ping_interval, serverUp, resp, midStats, interrupted>>

\* ----------------------------------------------------------------- Prober
\* start_pinging, lines 95-98: the two start-up lines, then the loop
StartPinging ==
  /\ pc = "start"
  /\ pc' = "L100"
  /\ lastLog' = "start"
  /\ UNCHANGED <<stats, clock, ep, attempts, result, sleep_time, sleepArg, preCycle, streak>>
  /\ UNCHANGED serverVars

\* line 100 calls ping_target; line 50 counts the cycle.  n bounds the
\* cycles of a behaviour.
CallPingTargetUpTo(n) ==
  /\ pc = "L100"
  /\ stats.total_pings < n
  /\ preCycle' = stats
  /\ midStats' = <<>>
  /\ stats' = [stats EXCEPT !.total_pings = @ + 1]
  /\ attempts' = <<>>
  /\ pc' = "L51"
  /\ UNCHANGED <<clock, ep, result, sleep_time, sleepArg, lastLog, streak>>
  /\ UNCHANGED <<runMode, ping_interval, serverUp, resp, interrupted>>

CallPingTarget == CallPingTargetUpTo(MaxCycles)

\* line 51, then the for loop is entered at the first endpoint
RecordLastPing ==
  /\ pc = "L51"
  /\ clock' = clock + 1
  /\ stats' = [stats EXCEPT !.last_ping = <<clock'>>]
  /\ ep' = 1
  /\ pc' = "L58"
  /\ UNCHANGED <<attempts, result, sleep_time, sleepArg, lastLog, preCycle, streak>>
  /\ UNCHANGED serverVars

\* the for loop stepping over every other endpoint
NextEndpoint_skip(i) ==
  IF i + 1 < Len(endpoints) THEN <<"L58", i + 2>> ELSE <<"L81", 0>>

\* where the for loop goes after an endpoint that did not succeed
NextEndpoint(i) == IF i < Len(endpoints) THEN <<"L58", i + 1>> ELSE <<"L81", 0>>

\* lines 54-61 and 70-78 without the except Exception clause of line 76: an
\* exception that is neither Timeout nor ConnectionError leaves ping_target
RequestEndpoint_uncaught ==
  /\ pc = "L58"
  /\ \E o \in Outcomes :
       /\ attempts' = Append(attempts, [path |-> endpoints[ep], ok |-> o = "200"])
       /\ IF o = "200"
            THEN /\ pc' = "L62"
                 /\ UNCHANGED <<ep, lastLog>>
            ELSE IF o = "Exception"
            THEN /\ pc' = "L119"
                 /\ ep' = 0
                 /\ UNCHANGED lastLog
            ELSE /\ pc' = NextEndpoint(ep)[1]
                 /\ ep' = NextEndpoint(ep)[2]
                 /\ lastLog' = IF o = "non200" THEN lastLog ELSE o
  /\ UNCHANGED <<stats, clock, result, sleep_time, sleepArg, preCycle, streak>>
  /\ UNCHANGED serverVars

\* lines 54-61 and 70-78: one request and its classification
RequestEndpoint ==
  /\ pc = "L58"
  /\ \E o \in Outcomes :
       /\ attempts' = Append(attempts, [path |-> endpoints[ep], ok |-> o = "200"])
       /\ IF o = "200"
            THEN /\ pc' = "L62"
                 /\ UNCHANGED <<ep, lastLog>>
            ELSE /\ pc' = NextEndpoint(ep)[1]
                 /\ ep' = NextEndpoint(ep)[2]
                 /\ lastLog' = IF o = "non200" THEN lastLog ELSE o
  /\ UNCHANGED <<stats, clock, result, sleep_time, sleepArg, preCycle, streak>>
  /\ UNCHANGED serverVars

\* line 62
MarkSuccess ==
  /\ pc = "L62"
  /\ stats' = [stats EXCEPT !.successful_pings = @ + 1]
  /\ pc' = "L63"
  /\ UNCHANGED <<clock, ep, attempts, result, sleep_time, sleepArg, lastLog, preCycle, streak>>
  /\ UNCHANGED serverVars

\* line 63 writing the wrong key
RecordLastSuccess_wrongkey ==
  /\ pc = "L63"
  /\ clock' = clock + 1
  /\ stats' = [stats EXCEPT !.last_ping = <<clock'>>]
  /\ pc' = "L64"
  /\ UNCHANGED <<ep, attempts, result, sleep_time, sleepArg, lastLog, preCycle, streak>>
  /\ UNCHANGED serverVars

\* line 63
RecordLastSuccess ==
  /\ pc = "L63"
  /\ clock' = clock + 1
  /\ stats' = [stats EXCEPT !.last_success = <<clock'>>]
  /\ pc' = "L64"
  /\ UNCHANGED <<ep, attempts, result, sleep_time, sleepArg, lastLog, preCycle, streak>>
  /\ UNCHANGED serverVars

\* lines 64-66 without the reset of consecutive_failures
ResetFailures_kept ==
  /\ pc = "L64"
  /\ lastLog' = "success"
  /\ pc' = "L67"
  /\ UNCHANGED <<stats, clock, ep, attempts, result, sleep_time, sleepArg, preCycle, streak>>
  /\ UNCHANGED serverVars

\* lines 64-66
ResetFailures ==
  /\ pc = "L64"
  /\ stats' = [stats EXCEPT !.consecutive_failures = 0]
  /\ lastLog' = "success"
  /\ pc' = "L67"
  /\ UNCHANGED <<clock, ep, attempts, result, sleep_time, sleepArg, preCycle, streak>>
  /\ UNCHANGED serverVars

\* lines 67-68 without the return: the for loop goes on
SuccessReturn_noreturn ==
  /\ pc = "L67"
  /\ stats' = _update_uptime(stats)
  /\ pc' = NextEndpoint(ep)[1]
  /\ ep' = NextEndpoint(ep)[2]
  /\ UNCHANGED <<clock, attempts, result, sleep_time, sleepArg, lastLog, preCycle, streak>>
  /\ UNCHANGED serverVars

\* lines 67-68
SuccessReturn ==
  /\ pc = "L67"
  /\ stats' = _update_uptime(stats)
  /\ result' = "True"
  /\ streak' = 0
  /\ ep' = 0
  /\ pc' = "L103"
  /\ UNCHANGED <<clock, attempts, sleep_time, sleepArg, lastLog, preCycle>>
  /\ UNCHANGED serverVars

\* line 81 left out
MarkFailure_forgotten ==
  /\ pc = "L81"
  /\ pc' = "L82"
  /\ UNCHANGED <<stats, clock, ep, attempts, result, sleep_time, sleepArg, lastLog, preCycle, streak>>
  /\ UNCHANGED serverVars

\* line 81
MarkFailure ==
  /\ pc = "L81"
  /\ stats' = [stats EXCEPT !.failed_pings = @ + 1]
  /\ pc' = "L82"
  /\ UNCHANGED <<clock, ep, attempts, result, sleep_time, sleepArg, lastLog, preCycle, streak>>
  /\ UNCHANGED serverVars

\* lines 82-84
CountFailure ==
  /\ pc = "L82"
  /\ stats' = [stats EXCEPT !.consecutive_failures = @ + 1]
  /\ lastLog' = "allfailed"
  /\ pc' = "L85"
  /\ UNCHANGED <<clock, ep, attempts, result, sleep_time, sleepArg, preCycle, streak>>
  /\ UNCHANGED serverVars

\* lines 85-86
FailureReturn ==
  /\ pc = "L85"
  /\ stats' = _update_uptime(stats)
  /\ result' = "False"
  /\ streak' = streak + 1
  /\ ep' = 0
  /\ pc' = "L103"
  /\ UNCHANGED <<clock, attempts, sleep_time, sleepArg, lastLog, preCycle>>
  /\ UNCHANGED serverVars

\* lines 103-104 testing the count of the cycle to come
HourlyStats_offbyone ==
  /\ pc = "L103"
  /\ lastLog' = IF (stats.total_pings + 1) % SummaryEvery = 0 THEN "hourly" ELSE lastLog
  /\ pc' = "L107"
  /\ UNCHANGED <<stats, clock, ep, attempts, result, sleep_time, sleepArg, preCycle, streak>>
  /\ UNCHANGED serverVars

\* lines 103-104: the summary line every SummaryEvery cycles
HourlyStats ==
  /\ pc = "L103"
  /\ lastLog' = IF stats.total_pings % SummaryEvery = 0 THEN "hourly" ELSE lastLog
  /\ pc' = "L107"
  /\ UNCHANGED <<stats, clock, ep, attempts, result, sleep_time, sleepArg, preCycle, streak>>
  /\ UNCHANGED serverVars

\* lines 107-111 halving one failed cycle too early
SleepTime_early(s, interval) ==
  IF s.consecutive_failures >= FailureThreshold - 1 THEN interval \div 2 ELSE interval

\* lines 107-111 with > for >=
SleepTime_strict(s, interval) ==
  IF s.consecutive_failures > FailureThreshold THEN interval \div 2 ELSE interval

\* lines 107-111: the sleep after a cycle
SleepTime(s, interval) ==
  IF s.consecutive_failures >= FailureThreshold THEN interval \div 2 ELSE interval

ChooseSleep ==
  /\ pc = "L107"
  /\ sleep_time' = SleepTime(stats, ping_interval)
  /\ lastLog' = IF stats.consecutive_failures >= FailureThreshold
                  THEN "reducing" ELSE lastLog
  /\ pc' = "L113"
  /\ UNCHANGED <<stats, clock, ep, attempts, result, sleepArg, preCycle, streak>>
  /\ UNCHANGED serverVars

\* line 113: time.sleep raises ValueError for a negative argument, which
\* the except Exception clause of line 118 catches
Sleep ==
  /\ pc = "L113"
  /\ IF sleep_time < 0
       THEN pc' = "L119" /\ UNCHANGED sleepArg
       ELSE pc' = "sleeping" /\ sleepArg' = sleep_time
  /\ UNCHANGED <<stats, clock, ep, attempts, result, sleep_time, lastLog, preCycle, streak>>
  /\ UNCHANGED serverVars

\* time.sleep of line 113 returns and the loop is left
Wake_break ==
  /\ pc = "sleeping"
  /\ sleepArg' = 0
  /\ pc' = "exited"
  /\ UNCHANGED <<stats, clock, ep, attempts, result, sleep_time, lastLog, preCycle, streak>>
  /\ UNCHANGED serverVars

\* time.sleep of line 113 returns, the while loop iterates
Wake ==
  /\ pc = "sleeping"
  /\ sleepArg' = 0
  /\ pc' = "L100"
  /\ UNCHANGED <<stats, clock, ep, attempts, result, sleep_time, lastLog, preCycle, streak>>
  /\ UNCHANGED serverVars

\* lines 118-120 leaving the loop instead of pausing
HandleUnexpected_break ==
  /\ pc = "L119"
  /\ lastLog' = "unexpected"
  /\ pc' = "crashed"
  /\ UNCHANGED <<stats, clock, ep, attempts, result, sleep_time, sleepArg, preCycle, streak>>
  /\ UNCHANGED serverVars

\* lines 118-120: log the error, begin the fixed pause
HandleUnexpected ==
  /\ pc = "L119"
  /\ lastLog' = "unexpected"
  /\ sleepArg' = Cooldown
  /\ pc' = "cooldown"
  /\ UNCHANGED <<stats, clock, ep, attempts, result, sleep_time, preCycle, streak>>
  /\ UNCHANGED serverVars

\* time.sleep(60) of line 120 returns, the while loop iterates
CooldownWake ==
  /\ pc = "cooldown"
  /\ sleepArg' = 0
  /\ pc' = "L100"
  /\ UNCHANGED <<stats, clock, ep, attempts, result, sleep_time, lastLog, preCycle, streak>>
  /\ UNCHANGED serverVars

\* KeyboardInterrupt raised in the thread running start_pinging.  Inside the
\* try block (ping_target's except Exception does not catch it) lines
\* 115-117 log and break; inside the except Exception handler of lines
\* 118-120 no clause catches it and it leaves start_pinging.
KeyboardInterrupt ==
  /\ runMode = "direct"
  /\ pc \in InTry \cup InHandler
  /\ interrupted' = TRUE
  /\ IF pc \in InTry
       THEN pc' = "exited" /\ lastLog' = "stopped"
       ELSE pc' = "crashed" /\ UNCHANGED lastLog
  /\ sleepArg' = 0
  /\ UNCHANGED <<stats, clock, ep, attempts, result, sleep_time, preCycle, streak>>
  /\ UNCHANGED <<runMode, ping_interval, serverUp, resp, midStats>>

\* ---------------------------------------------------------- Status Server
\* route /
root ==
  /\ serverUp
  /\ resp' = [route |-> "/", service |-> "ErixCast Bot External Pinger",
              status |-> "running", target |-> "TARGET_URL"]
  /\ UNCHANGED <<runMode, ping_interval, stats, clock, pc, ep, attempts, result,
                 sleep_time, sleepArg, lastLog, serverUp, preCycle, midStats,
                 streak, interrupted>>

\* route /health; its timestamp is the latest clock reading
health ==
  /\ serverUp
  /\ resp' = [route |-> "/health", status |-> "healthy", timestamp |-> clock]
  /\ UNCHANGED <<runMode, ping_interval, stats, clock, pc, ep, attempts, result,
                 sleep_time, sleepArg, lastLog, serverUp, preCycle, midStats,
                 streak, interrupted>>

\* what jsonify(pinger.stats) serialises: the record as it stands
StatsBody(s) == s

\* route /stats waiting for a lock the Prober holds for the whole cycle
stats_route_locked ==
  /\ serverUp
  /\ pc \notin InCycle
  /\ resp' = [route |-> "/stats", body |-> StatsBody(stats)]
  /\ UNCHANGED <<runMode, ping_interval, stats, clock, pc, ep, attempts, result,
                 sleep_time, sleepArg, lastLog, serverUp, preCycle, midStats,
                 streak, interrupted>>

\* route /stats recomputing the percentage before it answers
stats_route_recompute ==
  /\ serverUp
  /\ stats' = _update_uptime(stats)
  /\ resp' = [route |-> "/stats", body |-> StatsBody(stats')]
  /\ midStats' = IF pc \in InCycle THEN <<StatsBody(stats')>> ELSE midStats
  /\ UNCHANGED <<runMode, ping_interval, clock, pc, ep, attempts, result,
                 sleep_time, sleepArg, lastLog, serverUp, preCycle,
                 streak, interrupted>>

\* route /stats
stats_route ==
  /\ serverUp
  /\ resp' = [route |-> "/stats", body |-> StatsBody(stats)]
  /\ midStats' = IF pc \in InCycle THEN <<StatsBody(stats)>> ELSE midStats
  /\ UNCHANGED <<runMode, ping_interval, stats, clock, pc, ep, attempts, result,
                 sleep_time, sleepArg, lastLog, serverUp, preCycle,
                 streak, interrupted>>

\* lines 149-158: the interrupt reaches the main thread, app.run returns,
\* the process exits and the daemon Prober thread ends with it
ProcessInterrupt ==
  /\ runMode = "thread"
  /\ serverUp
  /\ serverUp' = FALSE
  /\ interrupted' = TRUE
  /\ pc' = "killed"
  /\ UNCHANGED <<runMode, ping_interval, stats, clock, ep, attempts, result,
                 sleep_time, sleepArg, lastLog, resp, preCycle, midStats, streak>>

ProberStep ==
  \/ StartPinging \/ CallPingTarget \/ RecordLastPing \/ RequestEndpoint
  \/ MarkSuccess \/ RecordLastSuccess \/ ResetFailures \/ SuccessReturn
  \/ MarkFailure \/ CountFailure \/ FailureReturn
  \/ HourlyStats \/ ChooseSleep \/ Sleep \/ Wake
  \/ HandleUnexpected \/ CooldownWake

Next ==
  \/ StartPinging \/ CallPingTarget \/ RecordLastPing \/ RequestEndpoint
  \/ MarkSuccess \/ RecordLastSuccess \/ ResetFailures \/ SuccessReturn
  \/ MarkFailure \/ CountFailure \/ FailureReturn
  \/ HourlyStats \/ ChooseSleep \/ Sleep \/ Wake
  \/ HandleUnexpected \/ CooldownWake
  \/ KeyboardInterrupt
  \/ root \/ health \/ stats_route
  \/ ProcessInterrupt

Spec == Init /\ [][Next]_vars

\* The program without interrupts, every request and every sleep of the
\* Prober returning: the Prober's thread keeps being scheduled.
CallPingTargetLive == CallPingTargetUpTo(MaxCyclesLive)

ProberStepLive ==
  \/ StartPinging \/ CallPingTargetLive \/ RecordLastPing \/ RequestEndpoint
  \/ MarkSuccess \/ RecordLastSuccess \/ ResetFailures \/ SuccessReturn
  \/ MarkFailure \/ CountFailure \/ FailureReturn
  \/ HourlyStats \/ ChooseSleep \/ Sleep \/ Wake
  \/ HandleUnexpected \/ CooldownWake

NextLive == ProberStepLive \/ root \/ health \/ stats_route

SpecLive == Init /\ [][NextLive]_vars /\ WF_vars(ProberStepLive)

\* start_pinging on the main thread, followed for MaxCyclesLong cycles.
InitLong == Init /\ runMode = "direct"

CallPingTargetLong == CallPingTargetUpTo(MaxCyclesLong)

NextLong ==
  \/ StartPinging \/ CallPingTargetLong \/ RecordLastPing \/ RequestEndpoint
  \/ MarkSuccess \/ RecordLastSuccess \/ ResetFailures \/ SuccessReturn
  \/ MarkFailure \/ CountFailure \/ FailureReturn
  \/ HourlyStats \/ ChooseSleep \/ Sleep \/ Wake
  \/ HandleUnexpected \/ CooldownWake
  \/ KeyboardInterrupt

SpecLong == InitLong /\ [][NextLong]_vars

\* An exception raised inside the try block after line 62 has run: by the
\* call of line 63, or by logger.info of line 66 (line 64 has then reset
\* consecutive_failures).  It is caught by the except Exception clause of
\* lines 76-78, which logs it and continues with the next endpoint.
RaiseAfterSuccess ==
  /\ pc \in {"L63", "L64"}
  /\ stats' = IF pc = "L64"
                THEN [stats EXCEPT !.consecutive_failures = 0]
                ELSE stats
  /\ lastLog' = "Exception"
  /\ pc' = NextEndpoint(ep)[1]
  /\ ep' = NextEndpoint(ep)[2]
  /\ UNCHANGED <<clock, attempts, result, sleep_time, sleepArg, preCycle, streak>>
  /\ UNCHANGED serverVars

CallPingTargetFault == CallPingTargetUpTo(MaxCyclesFault)

NextFault ==
  \/ StartPinging \/ CallPingTargetFault \/ RecordLastPing \/ RequestEndpoint
  \/ MarkSuccess \/ RecordLastSuccess \/ ResetFailures \/ SuccessReturn
  \/ MarkFailure \/ CountFailure \/ FailureReturn
  \/ HourlyStats \/ ChooseSleep \/ Sleep \/ Wake
  \/ HandleUnexpected \/ CooldownWake
  \/ KeyboardInterrupt
  \/ root \/ health \/ stats_route
  \/ ProcessInterrupt
  \/ RaiseAfterSuccess

\* the program with exceptions in the bookkeeping of a successful request
SpecFault == Init /\ [][NextFault]_vars

\* ----------------------------------------------------------------- claims
\* positions at which no call of ping_target is in progress and the loop
\* has not been left
Completed == {"start", "L100", "L103", "L107", "L113", "sleeping", "L119", "cooldown"}

\* the position right after ping_target returned
Returned == pc = "L103"

\* C1: after every completed call of ping_target,
\* total_pings = successful_pings + failed_pings.
C1_TotalIsSum ==
  pc \in Completed =>
    stats.total_pings = stats.successful_pings + stats.failed_pings

C1_Witness ==
  /\ Returned
  /\ stats.successful_pings >= 1
  /\ stats.failed_pings >= 1

\* C2: every record the /stats route returns satisfies
\* total_pings = successful_pings + failed_pings.
C2_StatsResponseIsSum ==
  resp.route = "/stats" =>
    resp.body.total_pings = resp.body.successful_pings + resp.body.failed_pings

\* C3: a /stats record served while a cycle is in progress equals the record
\* before that cycle began or the record after that cycle completed.
C3_StatsResponseIsSnapshot ==
  (Returned /\ midStats # <<>>) =>
    (midStats[1] = preCycle \/ midStats[1] = stats)

\* C4: uptime_percentage is 100 while total_pings = 0, and after every
\* completed cycle it is successful_pings / total_pings * 100.
C4_Uptime ==
  /\ stats.total_pings = 0 => stats.uptime_percentage = <<100, 1>>
  /\ (pc \in Completed /\ stats.total_pings > 0) =>
       stats.uptime_percentage = Frac(100 * stats.successful_pings, stats.total_pings)

C4_Witness ==
  /\ Returned
  /\ stats.successful_pings = 1
  /\ stats.total_pings = 3

\* this cycle had a request answered with status 200
Has200 == \E i \in 1..Len(attempts) : attempts[i].ok

\* C5: the first endpoint answering 200 is the last endpoint requested in
\* its cycle, whatever number of endpoints failed before it, and the cycle
\* is then recorded and returned as successful.
C5_FirstSuccessHalts ==
  /\ \A i \in 1..Len(attempts) : attempts[i].ok => i = Len(attempts)
  /\ (Has200 /\ pc \in InCycle) => pc \in {"L62", "L63", "L64", "L67"}
  /\ (Has200 /\ pc \in Completed) =>
       /\ result = "True"
       /\ stats.successful_pings = preCycle.successful_pings + 1
       /\ stats.failed_pings = preCycle.failed_pings

C5_Witness ==
  /\ Returned
  /\ Len(attempts) = Len(endpoints)
  /\ attempts[Len(endpoints)].ok

\* C6: consecutive_failures is 0 right after a successful cycle, one more
\* than before after a fully-failed cycle, and so counts the fully-failed
\* cycles since the last successful one.
C6_ConsecutiveFailures ==
  /\ (Returned /\ result = "True") => stats.consecutive_failures = 0
  /\ (Returned /\ result = "False") =>
       stats.consecutive_failures = preCycle.consecutive_failures + 1
  /\ pc \in Completed => stats.consecutive_failures = streak

C6_Witness ==
  /\ Returned
  /\ result = "False"
  /\ stats.successful_pings >= 1
  /\ stats.consecutive_failures = 2

\* C7: the sleep after a cycle lasts ping_interval \div 2 when
\* consecutive_failures >= 3 and ping_interval otherwise.
C7_SleepDuration ==
  pc = "sleeping" =>
    sleepArg = IF stats.consecutive_failures >= 3
                 THEN ping_interval \div 2
                 ELSE ping_interval

C7_Witness ==
  /\ pc = "sleeping"
  /\ stats.consecutive_failures >= 3
  /\ ping_interval = DefaultInterval
  /\ sleepArg = 150

\* C8: the routes /, /health and /stats leave the statistics record
\* unchanged, and every change of the record is a step of the Prober.
C8_OnlyProberWrites ==
  [][ /\ (root \/ health \/ stats_route) => stats' = stats
      /\ stats' # stats => ProberStep ]_vars

C8_Witness ==
  /\ resp.route = "/stats"
  /\ pc \in InCycle
  /\ stats.total_pings >= 2
  /\ resp.body = stats

\* C9: an exception caught by the loop's except Exception clause is logged
\* and followed by a pause of 60 seconds, after which the loop calls
\* ping_target again; the loop is never left without an interrupt.
C9_UnexpectedErrorPause ==
  /\ [](pc = "cooldown" => (sleepArg = Cooldown /\ lastLog = "unexpected"))
  /\ [](pc \in Exited => interrupted)
  /\ [][ /\ pc = "L119" => (pc' \in {"L119", "cooldown"} \/ interrupted')
         /\ pc = "cooldown" => (pc' \in {"cooldown", "L100"} \/ interrupted') ]_vars

C9_Witness ==
  /\ pc = "L100"
  /\ lastLog = "unexpected"
  /\ stats.total_pings >= 1
  /\ ~interrupted

\* C10: an interrupt delivered to the scheduling loop at any point ends the
\* loop through the except KeyboardInterrupt clause, with the shutdown
\* message logged.
C10_InterruptEndsCleanly ==
  (runMode = "direct" /\ interrupted) => (pc = "exited" /\ lastLog = "stopped")

\* C11: an endpoint that fails in any way is followed by the next endpoint
\* and never ends ping_target; the call returns False, with failed_pings and
\* consecutive_failures one higher, exactly when all endpoints were
\* requested and none answered 200.
C11_FailuresAbsorbed ==
  /\ [](pc = "L58" => (Len(attempts) = ep - 1 /\ ~Has200))
  /\ [](pc \in {"L81", "L82", "L85"} =>
          (Len(attempts) = Len(endpoints) /\ ~Has200))
  /\ []((Returned /\ result # "none") =>
          /\ result = "False" <=> (Len(attempts) = Len(endpoints) /\ ~Has200)
          /\ result = "False" =>
               /\ stats.failed_pings = preCycle.failed_pings + 1
               /\ stats.consecutive_failures = preCycle.consecutive_failures + 1
               /\ stats.successful_pings = preCycle.successful_pings
          /\ result = "True" => stats.failed_pings = preCycle.failed_pings)
  /\ [][ (pc \in InCycle) => (pc' \in InCycle \cup {"L103"} \/ interrupted') ]_vars

C11_Witness ==
  /\ Returned
  /\ result = "False"
  /\ Len(attempts) = Len(endpoints)
  /\ lastLog = "allfailed"
  /\ stats.failed_pings = 2

\* C12: within one cycle successful_pings and failed_pings together grow by
\* at most one, also when an exception is raised in the try block after
\* line 62 has counted the success.
C12_OneCountPerCycle ==
  /\ stats.successful_pings - preCycle.successful_pings \in {0, 1}
  /\ stats.failed_pings - preCycle.failed_pings \in {0, 1}
  /\ (stats.successful_pings - preCycle.successful_pings)
       + (stats.failed_pings - preCycle.failed_pings) <= 1

\* C13: the requests of a cycle are the endpoints in their configured
\* order, each at most once and each only after all earlier ones were
\* requested and did not answer 200; total_pings grows by one per cycle,
\* at the start of the cycle, whatever the number of requests.
C13_FixedOrderOneCount ==
  /\ [](/\ Len(attempts) <= Len(endpoints)
         /\ \A i \in 1..Len(attempts) :
              /\ attempts[i].path = endpoints[i]
              /\ i < Len(attempts) => ~attempts[i].ok)
  /\ []((pc \in InCycle \/ Returned) =>
          stats.total_pings = preCycle.total_pings + 1)
  /\ [][ (stats'.total_pings # stats.total_pings) =>
           (pc = "L100" /\ stats'.total_pings = stats.total_pings + 1) ]_vars

C13_Witness ==
  /\ Returned
  /\ Len(attempts) = 3
  /\ attempts[3].path = "/"
  /\ stats.total_pings = 2
  /\ preCycle.total_pings = 1

\* C14: a sleep shorter than the interval follows only a cycle that ends a
\* run of at least three fully-failed cycles, and the sleep after a
\* successful cycle is the interval.  From a fresh start with interval 300
\* and only failed cycles, the sleeps after cycles 1 and 2 last 300, and
\* after cycle 3 consecutive_failures is 3, the sleep lasts 150 and
\* uptime_percentage is 0.
C14_TwoPacingStates ==
  pc = "sleeping" =>
    /\ sleepArg # ping_interval => (streak >= 3 /\ result = "False")
    /\ result = "True" => sleepArg = ping_interval
    /\ (ping_interval = 300 /\ stats.failed_pings = stats.total_pings) =>
         /\ stats.total_pings \in {1, 2} => sleepArg = 300
         /\ stats.total_pings = 3 =>
              /\ stats.consecutive_failures = 3
              /\ sleepArg = 150
              /\ stats.uptime_percentage = <<0, 1>>

C14_Witness ==
  /\ pc = "sleeping"
  /\ ping_interval = 300
  /\ stats.total_pings = 3
  /\ stats.failed_pings = 3
  /\ sleepArg = 150

\* C15: without an interrupt, every cycle ends after at most as many
\* requests as there are endpoints, and after every cycle, however it
\* ended, another one starts: total_pings passes every value up to the
\* bound of the model.
C15_RunsForever ==
  /\ [](Len(attempts) <= Len(endpoints))
  /\ (pc \in InCycle) ~> Returned
  /\ \A k \in 0..(MaxCyclesLive - 1) :
       (stats.total_pings = k) ~> (stats.total_pings = k + 1)

C15_Witness ==
  /\ pc = "L51"
  /\ stats.total_pings = 3
  /\ lastLog = "unexpected"

\* C16: while the server runs, each of the three routes can be served at
\* every position of the Prober, and the Prober can take its next step
\* whatever the Status Server has or has not done.
C16_NoBlocking ==
  /\ serverUp => (ENABLED root /\ ENABLED health /\ ENABLED stats_route)
  /\ (pc \notin Exited /\ ~(pc = "L100" /\ stats.total_pings >= MaxCycles)) =>
       ENABLED ProberStep

C16_Witness ==
  /\ serverUp
  /\ pc = "L58"
  /\ ep = 3
  /\ midStats = <<stats>>
  /\ resp.route = "/health"

\* C17: for a positive ping interval the sleep between two cycles lasts at
\* least one second.
C17_SleepAtLeastOneSecond ==
  (pc = "sleeping" /\ ping_interval >= 1) => sleepArg >= 1

\* C18: after every completed cycle last_ping is None exactly when
\* total_pings is 0 and last_success is None exactly when successful_pings
\* is 0; every cycle changes last_ping, and only a successful cycle changes
\* last_success.
C18_Timestamps ==
  /\ pc \in Completed =>
       /\ stats.last_ping = <<>> <=> stats.total_pings = 0
       /\ stats.last_success = <<>> <=> stats.successful_pings = 0
  /\ (Returned /\ result # "none") =>
       /\ stats.last_ping # preCycle.last_ping
       /\ stats.last_success # preCycle.last_success <=> result = "True"

C18_Witness ==
  /\ Returned
  /\ result = "False"
  /\ stats.successful_pings = 1
  /\ stats.total_pings = 3
  /\ stats.last_success = preCycle.last_success
  /\ stats.last_success # <<>>

\* C19: the summary line is logged after a cycle exactly when total_pings is
\* then a multiple of 12, whether the cycles succeeded or failed, and it is
\* logged nowhere else.
C19_SummaryEvery12 ==
  /\ [](pc = "L107" => (lastLog = "hourly" <=> stats.total_pings % 12 = 0))
  /\ [][ (lastLog' = "hourly" /\ lastLog # "hourly") =>
           (pc = "L103" /\ stats.total_pings > 0 /\ stats.total_pings % 12 = 0) ]_vars

C19_Witness ==
  /\ pc = "L107"
  /\ lastLog = "hourly"
  /\ stats.total_pings = 12
  /\ stats.successful_pings >= 1
  /\ stats.failed_pings >= 1

====
